---- MODULE Spec2Model ----
(***************************************************************************)
(* DOD SBIR scraper: the JSON API of app/api/v1/endpoints/topics.py (the   *)
(* search endpoint and the download endpoint) over the upstream gateway    *)
(* of app/core/clients/dod_sbir_client.py.                                 *)
(*                                                                         *)
(* One request is handled at a time; pc is the handler's position.  Every  *)
(* awaited gateway call is one step whose upstream outcome is chosen       *)
(* nondeterministically.                                                   *)
(*                                                                         *)
(* Spec is the application as written.  SpecLookup adds the download       *)
(* handler taken up at the await of topics.py:90 (see LookupAwaited), and  *)
(* FairSpecLookup its fairness.  SpecLifespan runs requests through the    *)
(* startup and shutdown of app/main.py's lifespan manager.  SpecBoth runs  *)
(* the form-post handler of src/main.py after the JSON handler on the same *)
(* upstream outcomes.  SpecTwo interleaves several calls of the download   *)
(* handler.                                                                *)
(*                                                                         *)
(* Python's Optional[x] is modelled as a set: {} is None, {v} is v.        *)
(***************************************************************************)
EXTENDS Integers, Sequences, FiniteSets, TLC

VARIABLES
    pc,                  \* position of the handler
    endpoint,            \* "none", "search" or "download"
    request,             \* the validated request body
    search_request,      \* the SearchRequest handed to client.search_topics
    all_found_topics,    \* topics.py:90, the lookup search's topics
    topic_map,           \* topics.py:94, the dict from topicCode to topicId
    topics_to_download,  \* topics.py:96
    not_found_codes,     \* topics.py:97
    idx,                 \* position of the loop of topics.py:140
    zf,                  \* entries written to the ZipFile, in namelist order
    search_calls,        \* gateway search calls issued so far
    pdf_calls,           \* gateway document fetches issued so far
    gateway_result,      \* what the last gateway call returned or raised
    response,            \* the HTTP response of the request
    in_flight,           \* gateway calls awaited and not yet returned
    lifespan,            \* position of app/main.py's lifespan manager
    http_client_store,   \* dod_sbir_client.py:91, the process-wide dict
    clients_created,     \* httpx.AsyncClient objects constructed so far
    gateways,            \* what each call of get_dod_sbir_client gave
    form,                \* src/main.py's form-post download handler
    batch,               \* the download requests handled concurrently
    frames               \* the locals of each running call of the handler

vars == <<pc, endpoint, request, search_request, all_found_topics, topic_map,
          topics_to_download, not_found_codes, idx, zf, search_calls,
          pdf_calls, gateway_result, response, in_flight, lifespan,
          http_client_store, clients_created, gateways, form, batch, frames>>

\* the state of the requests handled concurrently
concurrent == <<batch, frames>>

\* the state of the shared client's lifecycle
lifecycle == <<lifespan, http_client_store, clients_created, gateways>>

----------------------------------------------------------------------------
(* Bounds of the model *)

MaxPage == 2
MaxTotal == 5
MaxSelected == 3
MaxFound == 3

(* Program constants *)

MinPageSize == 1
MaxPageSize == 100
LookupPageSize == 1000
BadGateway == 502

None == {}
Some(v) == {v}
Value(opt) == CHOOSE v \in opt : TRUE

Terms == {None, Some("radar")}
Codes == {"A", "B", "C"}
\* the upstream catalogue: the opaque id the upstream holds for each code
UpstreamIdOf == [c \in Codes |-> CASE c = "A" -> "id1" [] c = "B" -> "id2" [] OTHER -> "id3"]
Bytes == {"%PDF-x", "%PDF-y"}
ErrorStatuses == {404, 503}

\* page and page_size as they arrive in a request body, valid or not
RawPages == (-1) .. MaxPage
RawPageSizes == {0, 1, 2, MaxPageSize, MaxPageSize + 1}

Topic(code) == [topicCode |-> code, topicId |-> UpstreamIdOf[code]]

RECURSIVE SeqsUpTo(_, _)
SeqsUpTo(S, n) ==
    IF n = 0 THEN {<<>>}
    ELSE LET shorter == SeqsUpTo(S, n - 1)
         IN  shorter \cup {Append(s, x) : s \in {t \in shorter : Len(t) = n - 1}, x \in S}

\* "sortBy": "finalTopicCode,asc" (dod_sbir_client.py:53): the order of the codes
CodeRank == [c \in Codes |-> CASE c = "A" -> 1 [] c = "B" -> 2 [] OTHER -> 3]
SortedByCode(s) == \A i, j \in 1 .. Len(s) : i < j => CodeRank[s[i]] < CodeRank[s[j]]

\* result pages of the upstream: sorted by code, topicCode unique within one page
TopicPages ==
    {[i \in 1 .. Len(s) |-> Topic(s[i])] : s \in {t \in SeqsUpTo(Codes, MaxFound) : SortedByCode(t)}}

\* selected_topics: List[str] with min_length=1
SelectedLists == SeqsUpTo(Codes, MaxSelected) \ {<<>>}

----------------------------------------------------------------------------
(* app/api/v1/schemas.py *)

\* variant: page_size without le=100
SearchRequest_noUpperBound(term, page, page_size) ==
    IF page >= 0 /\ page_size >= MinPageSize
    THEN [valid |-> TRUE, term |-> term, page |-> page, page_size |-> page_size]
    ELSE [valid |-> FALSE, term |-> None, page |-> 0, page_size |-> 0]

\* SearchRequest(term=, page=, page_size=): pydantic validates the Field
\* constraints on construction and raises ValidationError when one fails
SearchRequest(term, page, page_size) ==
    IF page >= 0 /\ page_size >= MinPageSize /\ page_size <= MaxPageSize
    THEN [valid |-> TRUE, term |-> term, page |-> page, page_size |-> page_size]
    ELSE [valid |-> FALSE, term |-> None, page |-> 0, page_size |-> 0]

NoSearchRequest == [valid |-> FALSE, term |-> None, page |-> 0, page_size |-> 0]

\* DownloadRequest: selected_topics min_length=1, page ge=0, page_size ge=1 le=100
DownloadRequest(selected_topics, search_term, page, page_size) ==
    IF Len(selected_topics) >= 1 /\ page >= 0
       /\ page_size >= MinPageSize /\ page_size <= MaxPageSize
    THEN [valid |-> TRUE, selected_topics |-> selected_topics, term |-> search_term,
          page |-> page, page_size |-> page_size]
    ELSE [valid |-> FALSE, selected_topics |-> <<>>, term |-> None,
          page |-> 0, page_size |-> 0]

NoRequest ==
    [valid |-> FALSE, selected_topics |-> <<>>, term |-> None, page |-> 0, page_size |-> 0]

----------------------------------------------------------------------------
(* HTTP responses *)

NoResponse ==
    [kind |-> "none", status |-> 0, code |-> "", filename |-> "", content |-> "",
     entries |-> <<>>, topics |-> <<>>, total |-> 0, page |-> 0, page_size |-> 0,
     has_more |-> FALSE]

\* HTTPException(status_code=, detail=ErrorResponse(code=))
HTTPException(status, code) ==
    [NoResponse EXCEPT !.kind = "error", !.status = status, !.code = code]

\* FastAPI rejects a body that fails validation before the handler runs
RequestValidationError == HTTPException(422, "VALIDATION")

----------------------------------------------------------------------------
(* app/core/clients/dod_sbir_client.py *)

\* what the network does to one call of self.client.request
NetTimeout == [kind |-> "TimeoutException", status |-> 0, data |-> <<>>, total |-> 0, content |-> ""]
NetTransport == [kind |-> "RequestError", status |-> 0, data |-> <<>>, total |-> 0, content |-> ""]
NetOther == [kind |-> "Exception", status |-> 0, data |-> <<>>, total |-> 0, content |-> ""]
NetStatus(s) == [kind |-> "response", status |-> s, data |-> <<>>, total |-> 0, content |-> ""]
NetFailures == {NetTimeout, NetTransport, NetOther} \cup {NetStatus(s) : s \in ErrorStatuses}

SearchOutcomes ==
    NetFailures \cup
    {[kind |-> "response", status |-> 200, data |-> d, total |-> t, content |-> ""] :
        d \in TopicPages, t \in 0 .. MaxTotal}

PdfFailures == {NetTimeout, NetStatus(404), NetOther}

PdfOutcomes ==
    PdfFailures \cup
    {[kind |-> "response", status |-> 200, data |-> <<>>, total |-> 0, content |-> b] :
        b \in Bytes}

\* class DoDSBIRAPIError(Exception): message, status_code: Optional[int] = None
DoDSBIRAPIError(message, status_code) ==
    [ok |-> FALSE, exc |-> "DoDSBIRAPIError", message |-> message,
     status_code |-> status_code,
     data |-> <<>>, total |-> 0, has_more |-> FALSE, content |-> ""]

\* any exception that is not a DoDSBIRAPIError
OtherException ==
    [ok |-> FALSE, exc |-> "Exception", message |-> "", status_code |-> None,
     data |-> <<>>, total |-> 0, has_more |-> FALSE, content |-> ""]

Returned(data, total, has_more, content) ==
    [ok |-> TRUE, exc |-> "", message |-> "", status_code |-> None,
     data |-> data, total |-> total, has_more |-> has_more, content |-> content]

NoResult == Returned(<<>>, 0, FALSE, "")

\* resp.raise_for_status(): HTTPStatusError unless the status is 2xx
RaisesForStatus(status) == ~(status >= 200 /\ status <= 299)

\* httpx: TimeoutException is a subclass of RequestError; HTTPStatusError,
\* raised by raise_for_status, is not
IsInstance(net, class) ==
    CASE class = "TimeoutException" -> net.kind = "TimeoutException"
      [] class = "RequestError" -> net.kind \in {"TimeoutException", "RequestError"}
      [] class = "HTTPStatusError" -> net.kind = "response" /\ RaisesForStatus(net.status)
      [] OTHER -> FALSE

\* variant: the HTTPStatusError clause forgets status_code=
ClientRequest_dropsStatus(net) ==
    IF IsInstance(net, "TimeoutException")
    THEN DoDSBIRAPIError("timed out", None)
    ELSE IF IsInstance(net, "RequestError")
    THEN DoDSBIRAPIError("Network error", None)
    ELSE IF IsInstance(net, "HTTPStatusError")
    THEN DoDSBIRAPIError("failed with status", None)
    ELSE IF net.kind = "response"
    THEN Returned(net.data, net.total, FALSE, net.content)
    ELSE OtherException

\* DoDSBIRClient._request: the first except clause that matches is taken
ClientRequest(net) ==
    IF IsInstance(net, "TimeoutException")
    THEN DoDSBIRAPIError("timed out", None)
    ELSE IF IsInstance(net, "RequestError")
    THEN DoDSBIRAPIError("Network error", None)
    ELSE IF IsInstance(net, "HTTPStatusError")
    THEN DoDSBIRAPIError("failed with status", Some(net.status))
    ELSE IF net.kind = "response"
    THEN Returned(net.data, net.total, FALSE, net.content)
    ELSE OtherException

\* variant: <= in place of <
HasMore_offByOne(page, page_size, total_elements) ==
    (page + 1) * page_size <= total_elements

\* DoDSBIRClient.search_topics, line 69
HasMore(page, page_size, total_elements) == (page + 1) * page_size < total_elements

search_topics(sr, net) ==
    LET resp == ClientRequest(net)
    IN  IF resp.ok
        THEN Returned(resp.data, resp.total, HasMore(sr.page, sr.page_size, resp.total), "")
        ELSE resp

\* DoDSBIRClient.download_pdf_content
download_pdf_content(topic_id, net) ==
    LET resp == ClientRequest(net)
    IN  IF resp.ok THEN Returned(<<>>, 0, FALSE, resp.content) ELSE resp

----------------------------------------------------------------------------
(* app/api/v1/endpoints/topics.py *)

Truthy(opt) == opt # None /\ Value(opt) # 0

\* variant: the upstream status is not passed on
PublicStatus_always502(status_code) == BadGateway

\* e.status_code if e.status_code else 502
PublicStatus(status_code) == IF Truthy(status_code) THEN Value(status_code) ELSE BadGateway

\* http_client_store: Dict[str, httpx.AsyncClient] = {} (dod_sbir_client.py:91)
EmptyStore == [k \in {} |-> 0]

\* http_client_store["client"] = client (app/main.py:22); clients are named
\* by the order of their construction
StoreWith(client) == [k \in {"client"} |-> client]

\* variant: a missing client is constructed and stored on demand
get_dod_sbir_client_creating(store, created) ==
    IF "client" \notin DOMAIN store
    THEN [ok |-> TRUE, client |-> Some(created + 1),
          store |-> StoreWith(created + 1), created |-> created + 1]
    ELSE [ok |-> TRUE, client |-> Some(store["client"]),
          store |-> store, created |-> created]

\* get_dod_sbir_client (dod_sbir_client.py:93-98): RuntimeError when the
\* store has no client, else DoDSBIRClient(http_client_store["client"]);
\* the result names the client the gateway wraps and the store and the count
\* of constructed clients after the call
get_dod_sbir_client(store, created) ==
    IF "client" \notin DOMAIN store
    THEN [ok |-> FALSE, client |-> None, store |-> store, created |-> created]
    ELSE [ok |-> TRUE, client |-> Some(store["client"]),
          store |-> store, created |-> created]

\* Depends(get_dod_sbir_client) of an arriving request returned a gateway
GatewayObtained ==
    LET g == get_dod_sbir_client(http_client_store, clients_created)
    IN  /\ g.ok
        /\ gateways' = Append(gateways, [lifespan |-> lifespan, client |-> g.client])
        /\ http_client_store' = g.store
        /\ clients_created' = g.created
        /\ lifespan' = lifespan

\* src/main.py's download_selected_pdfs before it is called: its position,
\* its topic_map, the position of its loop over `selected`, its ZipFile, the
\* document fetches it issued and its response
FormIdle ==
    [pc |-> "idle", topic_map |-> <<>>, idx |-> 0, zf |-> <<>>, pdf_calls |-> <<>>,
     response |-> NoResponse]

\* the awaited call `client.search_topics(...)` (topics.py:29 and 90)
SearchCall == [op |-> "search_topics", topic_id |-> "", pos |-> 0]

Init ==
    /\ pc = "idle"
    /\ endpoint = "none"
    /\ request = NoRequest
    /\ search_request = NoSearchRequest
    /\ all_found_topics = <<>>
    /\ topic_map = <<>>
    /\ topics_to_download = <<>>
    /\ not_found_codes = <<>>
    /\ idx = 0
    /\ zf = <<>>
    /\ search_calls = <<>>
    /\ pdf_calls = <<>>
    /\ gateway_result = NoResult
    /\ response = NoResponse
    /\ in_flight = {}
    /\ lifespan = "running"
    /\ http_client_store = StoreWith(1)
    /\ clients_created = 1
    /\ gateways = <<>>
    /\ form = FormIdle
    /\ batch = <<>>
    /\ frames = <<>>

\* POST /search arrives; the body is validated, then client.search_topics(request)
\* is awaited (topics.py:29)
search_topics_endpoint_call ==
    /\ UNCHANGED concurrent
    /\ UNCHANGED form
    /\ pc = "idle"
    /\ GatewayObtained
    /\ \E term \in Terms, page \in RawPages, page_size \in RawPageSizes :
          LET body == SearchRequest(term, page, page_size)
          IN  /\ endpoint' = "search"
              /\ IF body.valid
                 THEN /\ search_request' = body
                      /\ pc' = "search_call"
                      /\ response' = response
                      /\ in_flight' = {SearchCall}
                 ELSE /\ search_request' = search_request
                      /\ pc' = "done"
                      /\ response' = RequestValidationError
                      /\ in_flight' = in_flight
    /\ UNCHANGED <<request, all_found_topics, topic_map, topics_to_download,
                   not_found_codes, idx, zf, search_calls, pdf_calls, gateway_result>>

\* client.search_topics returns or raises (topics.py:29-49)
search_topics_endpoint_return ==
    /\ UNCHANGED concurrent
    /\ UNCHANGED form
    /\ UNCHANGED lifecycle
    /\ pc = "search_call"
    /\ \E net \in SearchOutcomes :
          LET r == search_topics(search_request, net)
          IN  /\ search_calls' = Append(search_calls, [request |-> search_request, net |-> net])
              /\ gateway_result' = r
              /\ response' =
                    IF r.ok
                    THEN [NoResponse EXCEPT !.kind = "json", !.status = 200,
                             !.topics = r.data, !.total = r.total,
                             !.page = search_request.page,
                             !.page_size = search_request.page_size,
                             !.has_more = r.has_more]
                    ELSE IF r.exc = "DoDSBIRAPIError"
                    THEN HTTPException(PublicStatus(r.status_code), "DOD_API_ERROR")
                    ELSE HTTPException(500, "INTERNAL_ERROR")
    /\ in_flight' = in_flight \ {SearchCall}
    /\ pc' = "done"
    /\ UNCHANGED <<endpoint, request, search_request, all_found_topics, topic_map,
                   topics_to_download, not_found_codes, idx, zf, pdf_calls>>

\* POST /download arrives (topics.py:67-92): the body is validated, the two
\* SearchRequest values are built; a ValidationError of the second is caught
\* by `except Exception` (topics.py:181-186)
download_pdfs_endpoint ==
    /\ UNCHANGED concurrent
    /\ UNCHANGED form
    /\ pc = "idle"
    /\ GatewayObtained
    /\ \E selected \in SelectedLists, term \in Terms, page \in RawPages,
          page_size \in RawPageSizes :
          LET body == DownloadRequest(selected, term, page, page_size)
              search_req_for_ids == SearchRequest(term, page, page_size)
              lookup == SearchRequest(term, 0, LookupPageSize)
          IN  /\ endpoint' = "download"
              /\ IF ~body.valid
                 THEN /\ pc' = "done"
                      /\ response' = RequestValidationError
                      /\ UNCHANGED <<request, search_request, in_flight>>
                 ELSE IF ~search_req_for_ids.valid \/ ~lookup.valid
                 THEN /\ request' = body
                      /\ pc' = "done"
                      /\ response' = HTTPException(500, "DOWNLOAD_ERROR")
                      /\ UNCHANGED <<search_request, in_flight>>
                 ELSE /\ request' = body
                      /\ search_request' = lookup
                      /\ pc' = "lookup"
                      /\ in_flight' = {SearchCall}
                      /\ UNCHANGED response
    /\ UNCHANGED <<all_found_topics, topic_map, topics_to_download,
                   not_found_codes, idx, zf, search_calls, pdf_calls, gateway_result>>

Next ==
    \/ search_topics_endpoint_call
    \/ search_topics_endpoint_return
    \/ download_pdfs_endpoint

Spec == Init /\ [][Next]_vars

----------------------------------------------------------------------------
(* download_pdfs_endpoint from the await of topics.py:90 on *)

\* dict.get(key): None when the key is missing
Get(map, key) == IF key \in DOMAIN map THEN Some(map[key]) ELSE None

\* truth value of an Optional[str]: None and "" are false
StrTruthy(opt) == opt # None /\ Value(opt) # ""

\* {topic.topicCode: topic.topicId for topic in all_found_topics}: a later
\* topic with the same code overwrites an earlier one (topics.py:94)
TopicMapOf(topics) ==
    LET codes == {topics[i].topicCode : i \in 1 .. Len(topics)}
        last(c) == CHOOSE i \in 1 .. Len(topics) :
                      /\ topics[i].topicCode = c
                      /\ \A j \in 1 .. Len(topics) : topics[j].topicCode = c => j <= i
    IN  [c \in codes |-> topics[last(c)].topicId]

\* the loop of topics.py:99-104 over request.selected_topics
RECURSIVE ResolveLoop(_, _, _, _)
ResolveLoop(selected, map, resolved, unresolved) ==
    IF selected = <<>>
    THEN [topics_to_download |-> resolved, not_found_codes |-> unresolved]
    ELSE LET code == Head(selected)
             topic_id == Get(map, code)
         IN  IF StrTruthy(topic_id)
             THEN ResolveLoop(Tail(selected), map,
                              Append(resolved, <<code, Value(topic_id)>>), unresolved)
             ELSE ResolveLoop(Tail(selected), map, resolved, Append(unresolved, code))

\* variant: the DoDSBIRAPIError clause is missing and `except Exception` answers
DownloadFailure_generic(r) == HTTPException(500, "DOWNLOAD_ERROR")

\* the except clauses of topics.py:173-186 around the whole handler
DownloadFailure(r) ==
    IF r.exc = "DoDSBIRAPIError"
    THEN HTTPException(PublicStatus(r.status_code), "DOD_API_DOWNLOAD_ERROR")
    ELSE HTTPException(500, "DOWNLOAD_ERROR")

\* variant: the inner test of topics.py:111 is missing, so only the safeguard
\* of topics.py:121 answers
ResolutionError_safeguardOnly(topics, not_found) ==
    IF topics = <<>>
    THEN HTTPException(404, "NO_TOPICS_FOR_DOWNLOAD")
    ELSE NoResponse

\* variant: any unresolved code fails the request
ResolutionError_failOnPartial(topics, not_found) ==
    IF not_found # <<>>
    THEN HTTPException(404, "TOPIC_NOT_FOUND")
    ELSE IF topics = <<>>
    THEN HTTPException(404, "NO_TOPICS_FOR_DOWNLOAD")
    ELSE NoResponse

\* topics.py:106-125: the HTTPException raised when nothing resolved
ResolutionError(topics, not_found) ==
    IF not_found # <<>> /\ Len(topics) = 0
    THEN HTTPException(404, "TOPIC_NOT_FOUND")
    ELSE IF topics = <<>>
    THEN HTTPException(404, "NO_TOPICS_FOR_DOWNLOAD")
    ELSE NoResponse

\* variant: no `except HTTPException` clause, so an HTTPException raised in
\* the try falls to `except Exception` (topics.py:181-186)
ReRaise_rewrapped(exc) ==
    IF exc.kind = "error" THEN HTTPException(500, "DOWNLOAD_ERROR") ELSE exc

\* topics.py:179-180: `except HTTPException: raise` ahead of `except Exception`
ReRaise(exc) == exc

\* variant: a single pair is packed into a ZIP as well
PathFor_alwaysZip(topics) == "zip"

\* topics.py:128: one resolved pair is answered directly, several as a ZIP
PathFor(topics) == IF Len(topics) = 1 THEN "single" ELSE "zip"

\* the awaited call `client.download_pdf_content(topic_id)` for pair i
FetchCall(topics, i) ==
    [op |-> "download_pdf_content", topic_id |-> topics[i][2], pos |-> i]

\* variant: the fetches of all pairs are issued together and gathered
FetchesIssued_gathered(topics, i) ==
    IF i = 1 THEN {FetchCall(topics, j) : j \in 1 .. Len(topics)} ELSE {}

\* topics.py:130 and 142: the handler awaits the fetch of pair i when it
\* reaches that pair, and goes on only when the call has returned or raised
FetchesIssued(topics, i) == {FetchCall(topics, i)}

\* client.search_topics returns or raises at topics.py:90; on return the
\* lookup table is built and the codes are resolved (topics.py:94-128)
download_lookup_return ==
    /\ UNCHANGED concurrent
    /\ UNCHANGED form
    /\ UNCHANGED lifecycle
    /\ pc = "lookup"
    /\ \E net \in SearchOutcomes :
          LET r == search_topics(search_request, net)
              map == TopicMapOf(r.data)
              res == ResolveLoop(request.selected_topics, map, <<>>, <<>>)
          IN  /\ search_calls' = Append(search_calls, [request |-> search_request, net |-> net])
              /\ gateway_result' = r
              /\ IF ~r.ok
                 THEN /\ response' = DownloadFailure(r)
                      /\ pc' = "done"
                      /\ in_flight' = in_flight \ {SearchCall}
                      /\ UNCHANGED <<all_found_topics, topic_map, topics_to_download,
                                     not_found_codes>>
                 ELSE /\ all_found_topics' = r.data
                      /\ topic_map' = map
                      /\ topics_to_download' = res.topics_to_download
                      /\ not_found_codes' = res.not_found_codes
                      /\ response' = ReRaise(ResolutionError(res.topics_to_download,
                                                             res.not_found_codes))
                      /\ pc' = IF response'.kind = "error"
                               THEN "done"
                               ELSE PathFor(res.topics_to_download)
                      /\ in_flight' =
                            (in_flight \ {SearchCall}) \cup
                               IF response'.kind = "error"
                               THEN {}
                               ELSE FetchesIssued(res.topics_to_download, 1)
    /\ idx' = 1
    /\ UNCHANGED <<endpoint, request, search_request, zf, pdf_calls>>

\* variant: the batch's file name in place of the code's
PdfResponse_batchName(code, pdf_content) ==
    [NoResponse EXCEPT !.kind = "pdf", !.status = 200,
        !.filename = "selected_pdfs.pdf", !.content = pdf_content]

\* topics.py:131-135: the StreamingResponse of a single document
PdfResponse(code, pdf_content) ==
    [NoResponse EXCEPT !.kind = "pdf", !.status = 200,
        !.filename = code \o ".pdf", !.content = pdf_content]

\* single resolved pair: client.download_pdf_content returns or raises
\* (topics.py:128-135, 173-186)
download_single_return ==
    /\ UNCHANGED concurrent
    /\ UNCHANGED form
    /\ UNCHANGED lifecycle
    /\ pc = "single"
    /\ \E net \in PdfOutcomes :
          LET code == topics_to_download[1][1]
              topic_id == topics_to_download[1][2]
              r == download_pdf_content(topic_id, net)
          IN  /\ pdf_calls' = Append(pdf_calls, [topic_id |-> topic_id, net |-> net])
              /\ gateway_result' = r
              /\ response' = IF r.ok THEN PdfResponse(code, r.content)
                                     ELSE DownloadFailure(r)
    /\ in_flight' = in_flight \ {FetchCall(topics_to_download, 1)}
    /\ pc' = "done"
    /\ UNCHANGED <<endpoint, request, search_request, all_found_topics, topic_map,
                   topics_to_download, not_found_codes, idx, zf, search_calls>>

\* zf.writestr(name, data)
writestr(archive, name, data) == Append(archive, [name |-> name, content |-> data])

\* zf.namelist()
namelist(archive) == [i \in 1 .. Len(archive) |-> archive[i].name]

\* variant: a failed fetch leaves no entry (the except clauses only continue)
ZipItem_noPlaceholder(archive, code, r) ==
    IF r.ok THEN writestr(archive, code \o ".pdf", r.content) ELSE archive

\* the body of the loop of topics.py:140-154 for one pair
ZipItem(archive, code, r) ==
    IF r.ok
    THEN writestr(archive, code \o ".pdf", r.content)
    ELSE IF r.exc = "DoDSBIRAPIError"
    THEN writestr(archive, "ERROR_" \o code \o ".txt",
                  "Failed to download PDF for topic " \o code)
    ELSE writestr(archive, "ERROR_" \o code \o ".txt",
                  "Unexpected error downloading PDF for topic " \o code)

\* topics.py:157-171, after the loop
ZipResponse(archive) ==
    IF namelist(archive) = <<>>
    THEN HTTPException(500, "ALL_DOWNLOADS_FAILED")
    ELSE [NoResponse EXCEPT !.kind = "zip", !.status = 200,
             !.filename = "selected_pdfs.zip", !.entries = archive]

\* variant: a failed fetch ends the loop
LoopExit_onFailure(i, n, r) == i = n \/ ~r.ok

\* the loop of topics.py:140 leaves after the last pair only: both except
\* clauses end in `continue`
LoopExit(i, n, r) == i = n

\* several resolved pairs: the fetch of pair idx returns or raises
\* (topics.py:138-154); after the last pair the archive is answered
\* (topics.py:157-171)
download_zip_item_return ==
    /\ UNCHANGED concurrent
    /\ UNCHANGED form
    /\ UNCHANGED lifecycle
    /\ pc = "zip"
    /\ idx <= Len(topics_to_download)
    /\ \E net \in PdfOutcomes :
          LET code == topics_to_download[idx][1]
              topic_id == topics_to_download[idx][2]
              r == download_pdf_content(topic_id, net)
              archive == ZipItem(zf, code, r)
          IN  /\ pdf_calls' = Append(pdf_calls, [topic_id |-> topic_id, net |-> net])
              /\ gateway_result' = r
              /\ zf' = archive
              /\ IF LoopExit(idx, Len(topics_to_download), r)
                 THEN /\ response' = ReRaise(ZipResponse(archive))
                      /\ pc' = "done"
                      /\ in_flight' = in_flight \ {FetchCall(topics_to_download, idx)}
                 ELSE /\ response' = response
                      /\ pc' = "zip"
                      /\ in_flight' =
                            (in_flight \ {FetchCall(topics_to_download, idx)}) \cup
                               FetchesIssued(topics_to_download, idx + 1)
    /\ idx' = idx + 1
    /\ UNCHANGED <<endpoint, request, search_request, all_found_topics, topic_map,
                   topics_to_download, not_found_codes, search_calls>>

\* DownloadRequest.page_size defaults to 10
DefaultPageSize == 10

\* The handler taken up at the await of topics.py:90, for a validated request
\* body and the lookup query as topics.py:91 writes it (page 0, page_size
\* 1000).  download_pdfs_endpoint above shows that SearchRequest rejects this
\* page_size, so Spec never gets here; SpecLookup starts the handler at this
\* await to examine the resolution and aggregation code that follows it.

LookupAwaited ==
    /\ pc = "lookup"
    /\ endpoint = "download"
    /\ \E selected \in SelectedLists :
          request = DownloadRequest(selected, Some("radar"), 0, DefaultPageSize)
    /\ search_request = [valid |-> TRUE, term |-> request.term, page |-> 0,
                         page_size |-> LookupPageSize]
    /\ all_found_topics = <<>>
    /\ topic_map = <<>>
    /\ topics_to_download = <<>>
    /\ not_found_codes = <<>>
    /\ idx = 0
    /\ zf = <<>>
    /\ search_calls = <<>>
    /\ pdf_calls = <<>>
    /\ gateway_result = NoResult
    /\ response = NoResponse
    /\ in_flight = {SearchCall}
    /\ lifespan = "running"
    /\ http_client_store = StoreWith(1)
    /\ clients_created = 1
    /\ gateways = <<[lifespan |-> "running", client |-> Some(1)]>>
    /\ form = FormIdle
    /\ batch = <<>>
    /\ frames = <<>>

InitLookup == Init \/ LookupAwaited

NextLookup ==
    \/ Next
    \/ download_lookup_return
    \/ download_single_return
    \/ download_zip_item_return

SpecLookup == InitLookup /\ [][NextLookup]_vars

\* every awaited gateway call returns or raises: httpx.Timeout(30.0,
\* connect=5.0) of app/main.py:19 bounds each call, and the handler's own
\* steps between two awaits always run
FairSpecLookup == SpecLookup /\ WF_vars(NextLookup)

----------------------------------------------------------------------------
(* The lifecycle of the shared client: app/main.py's lifespan manager *)

MaxRequests == 2

\* app/main.py:20-23: the client is constructed, entered and stored, and the
\* application starts to serve
lifespan_startup ==
    /\ UNCHANGED concurrent
    /\ UNCHANGED form
    /\ lifespan = "created"
    /\ clients_created' = clients_created + 1
    /\ http_client_store' = StoreWith(clients_created + 1)
    /\ lifespan' = "running"
    /\ UNCHANGED <<pc, endpoint, request, search_request, all_found_topics,
                   topic_map, topics_to_download, not_found_codes, idx, zf,
                   search_calls, pdf_calls, gateway_result, response, in_flight,
                   gateways>>

\* app/main.py:21-23: shutdown resumes the manager after the yield and the
\* `async with` closes the client; the store still holds it
lifespan_close ==
    /\ UNCHANGED concurrent
    /\ UNCHANGED form
    /\ lifespan = "running"
    /\ lifespan' = "closing"
    /\ UNCHANGED <<pc, endpoint, request, search_request, all_found_topics,
                   topic_map, topics_to_download, not_found_codes, idx, zf,
                   search_calls, pdf_calls, gateway_result, response, in_flight,
                   http_client_store, clients_created, gateways>>

\* app/main.py:25: http_client_store.clear() ends the shutdown
lifespan_clear ==
    /\ UNCHANGED concurrent
    /\ UNCHANGED form
    /\ lifespan = "closing"
    /\ http_client_store' = EmptyStore
    /\ lifespan' = "stopped"
    /\ UNCHANGED <<pc, endpoint, request, search_request, all_found_topics,
                   topic_map, topics_to_download, not_found_codes, idx, zf,
                   search_calls, pdf_calls, gateway_result, response, in_flight,
                   clients_created, gateways>>

\* an exception no handler catches is answered by the server with a bare 500
UnhandledError == [NoResponse EXCEPT !.kind = "error", !.status = 500]

\* a request arrives while the store has no client: the dependency raises
\* RuntimeError (dod_sbir_client.py:94-97) and the handler is not called
get_dod_sbir_client_raises ==
    /\ UNCHANGED concurrent
    /\ UNCHANGED form
    /\ pc = "idle"
    /\ LET g == get_dod_sbir_client(http_client_store, clients_created)
       IN  /\ ~g.ok
           /\ gateways' = Append(gateways, [lifespan |-> lifespan, client |-> g.client])
           /\ http_client_store' = g.store
           /\ clients_created' = g.created
    /\ \E ep \in {"search", "download"} : endpoint' = ep
    /\ response' = UnhandledError
    /\ pc' = "done"
    /\ UNCHANGED <<request, search_request, all_found_topics, topic_map,
                   topics_to_download, not_found_codes, idx, zf, search_calls,
                   pdf_calls, gateway_result, in_flight, lifespan>>

\* the response is sent and everything of the request is discarded; the
\* process goes on to the next request
request_done ==
    /\ UNCHANGED concurrent
    /\ UNCHANGED form
    /\ pc = "done"
    /\ Len(gateways) < MaxRequests
    /\ pc' = "idle"
    /\ endpoint' = "none"
    /\ request' = NoRequest
    /\ search_request' = NoSearchRequest
    /\ all_found_topics' = <<>>
    /\ topic_map' = <<>>
    /\ topics_to_download' = <<>>
    /\ not_found_codes' = <<>>
    /\ idx' = 0
    /\ zf' = <<>>
    /\ search_calls' = <<>>
    /\ pdf_calls' = <<>>
    /\ gateway_result' = NoResult
    /\ response' = NoResponse
    /\ in_flight' = {}
    /\ UNCHANGED lifecycle

\* the process before the lifespan manager has run
InitLifespan ==
    /\ pc = "idle"
    /\ endpoint = "none"
    /\ request = NoRequest
    /\ search_request = NoSearchRequest
    /\ all_found_topics = <<>>
    /\ topic_map = <<>>
    /\ topics_to_download = <<>>
    /\ not_found_codes = <<>>
    /\ idx = 0
    /\ zf = <<>>
    /\ search_calls = <<>>
    /\ pdf_calls = <<>>
    /\ gateway_result = NoResult
    /\ response = NoResponse
    /\ in_flight = {}
    /\ lifespan = "created"
    /\ http_client_store = EmptyStore
    /\ clients_created = 0
    /\ gateways = <<>>
    /\ form = FormIdle
    /\ batch = <<>>
    /\ frames = <<>>

NextLifespan ==
    \/ Next
    \/ lifespan_startup
    \/ lifespan_close
    \/ lifespan_clear
    \/ get_dod_sbir_client_raises
    \/ request_done

SpecLifespan == InitLifespan /\ [][NextLifespan]_vars

----------------------------------------------------------------------------
(* src/main.py: the form-post application's download handler, run on the    *)
(* codes of the JSON request and on the upstream outcomes the JSON handler  *)
(* met                                                                      *)

\* query_api (src/main.py:57-66): the topics of the response, or the
\* exception of the request or of raise_for_status
query_api(net) ==
    IF net.kind = "response" /\ ~RaisesForStatus(net.status)
    THEN [ok |-> TRUE, topics |-> net.data]
    ELSE [ok |-> FALSE, topics |-> <<>>]

\* {t['topicCode']: t for t in topics} (src/main.py:146)
FormTopicMapOf(topics) ==
    LET codes == {topics[i].topicCode : i \in 1 .. Len(topics)}
        last(c) == CHOOSE i \in 1 .. Len(topics) :
                      /\ topics[i].topicCode = c
                      /\ \A j \in 1 .. Len(topics) : topics[j].topicCode = c => j <= i
    IN  [c \in codes |-> topics[last(c)]]

\* HTMLResponse(...) of src/main.py:148 and 156: an error page, status 200
HTMLResponse(text) ==
    [NoResponse EXCEPT !.kind = "html", !.status = 200, !.content = text]

\* the loop of src/main.py:171-174 skips the codes topic_map does not hold:
\* the first position from i on whose code it holds, Len(selected) + 1 if none
RECURSIVE NextFetched(_, _, _)
NextFetched(selected, map, i) ==
    IF i > Len(selected) THEN i
    ELSE IF selected[i] \in DOMAIN map THEN i
    ELSE NextFetched(selected, map, i + 1)

\* src/main.py:184-189: the archive is answered whatever it holds
FormZipResponse(archive) ==
    [NoResponse EXCEPT !.kind = "zip", !.status = 200,
        !.filename = "selected_pdfs.zip", !.entries = archive]

\* client.get and r.raise_for_status() of src/main.py:160-161 and 178-179
form_fetch(net) ==
    IF net.kind = "response" /\ ~RaisesForStatus(net.status)
    THEN [ok |-> TRUE, content |-> net.content]
    ELSE [ok |-> FALSE, content |-> ""]

\* the upstream's outcome of the form handler's k-th document fetch: the
\* outcome the JSON handler's k-th fetch met (both walk the selected codes
\* in order), any outcome when the JSON handler made no k-th fetch
FetchOutcomes(k) ==
    IF k <= Len(pdf_calls) THEN {pdf_calls[k].net} ELSE PdfOutcomes

\* POST /download of the form application (src/main.py:137-156, 168-174):
\* query_api returns the lookup search's outcome or raises
download_selected_pdfs ==
    /\ UNCHANGED concurrent
    /\ pc = "done"
    /\ endpoint = "download"
    /\ search_calls # <<>>
    /\ form.pc = "idle"
    /\ LET selected == request.selected_topics
           q == query_api(search_calls[1].net)
           map == FormTopicMapOf(q.topics)
           first == NextFetched(selected, map, 1)
       IN  form' =
              IF ~q.ok
              THEN [form EXCEPT !.pc = "done",
                       !.response = HTMLResponse("Error fetching topic list for download")]
              ELSE IF Len(selected) = 1
              THEN IF selected[1] \notin DOMAIN map
                   THEN [form EXCEPT !.pc = "done", !.topic_map = map,
                            !.response = HTMLResponse("Topic code not found")]
                   ELSE [form EXCEPT !.pc = "single", !.topic_map = map, !.idx = 1]
              ELSE IF first > Len(selected)
              THEN [form EXCEPT !.pc = "done", !.topic_map = map, !.idx = first,
                       !.response = FormZipResponse(<<>>)]
              ELSE [form EXCEPT !.pc = "zip", !.topic_map = map, !.idx = first]
    /\ UNCHANGED <<pc, endpoint, request, search_request, all_found_topics,
                   topic_map, topics_to_download, not_found_codes, idx, zf,
                   search_calls, pdf_calls, gateway_result, response, in_flight>>
    /\ UNCHANGED lifecycle

\* src/main.py:157-166: the fetch of the one selected code returns, or raises
\* past the handler, which has no except clause there
form_single_return ==
    /\ UNCHANGED concurrent
    /\ form.pc = "single"
    /\ \E net \in FetchOutcomes(1) :
          LET code == request.selected_topics[1]
              uid == form.topic_map[code].topicId
              r == form_fetch(net)
          IN  form' = [form EXCEPT !.pc = "done",
                          !.pdf_calls = Append(@, [topic_id |-> uid, net |-> net]),
                          !.response = IF r.ok THEN PdfResponse(code, r.content)
                                               ELSE UnhandledError]
    /\ UNCHANGED <<pc, endpoint, request, search_request, all_found_topics,
                   topic_map, topics_to_download, not_found_codes, idx, zf,
                   search_calls, pdf_calls, gateway_result, response, in_flight>>
    /\ UNCHANGED lifecycle

\* the loop of src/main.py:171-182: the fetch of selected[idx] returns and is
\* written, or raises and is skipped; after the last code the archive is
\* answered (src/main.py:184-189)
form_zip_item_return ==
    /\ UNCHANGED concurrent
    /\ form.pc = "zip"
    /\ \E net \in FetchOutcomes(Len(form.pdf_calls) + 1) :
          LET selected == request.selected_topics
              code == selected[form.idx]
              uid == form.topic_map[code].topicId
              r == form_fetch(net)
              archive == IF r.ok THEN writestr(form.zf, code \o ".pdf", r.content)
                                 ELSE form.zf
              next == NextFetched(selected, form.topic_map, form.idx + 1)
          IN  form' = [form EXCEPT
                          !.pdf_calls = Append(@, [topic_id |-> uid, net |-> net]),
                          !.zf = archive,
                          !.idx = next,
                          !.pc = IF next > Len(selected) THEN "done" ELSE "zip",
                          !.response = IF next > Len(selected)
                                       THEN FormZipResponse(archive)
                                       ELSE @]
    /\ UNCHANGED <<pc, endpoint, request, search_request, all_found_topics,
                   topic_map, topics_to_download, not_found_codes, idx, zf,
                   search_calls, pdf_calls, gateway_result, response, in_flight>>
    /\ UNCHANGED lifecycle

\* the JSON handler from the await of topics.py:90 on, then the form handler
InitBoth == LookupAwaited

NextBoth ==
    \/ download_lookup_return
    \/ download_single_return
    \/ download_zip_item_return
    \/ download_selected_pdfs
    \/ form_single_return
    \/ form_zip_item_return

SpecBoth == InitBoth /\ [][NextBoth]_vars

----------------------------------------------------------------------------
(* Several download requests in flight at once: the server runs one call   *)
(* of download_pdfs_endpoint per request and switches between the calls at *)
(* their awaits.  Each call is taken up at the await of topics.py:90.      *)

MaxConcurrent == 2

Requests == 1 .. MaxConcurrent

\* the selections and the upstream outcomes the concurrent requests meet
BatchLists == {<<"A">>, <<"A", "B">>, <<"B", "C">>}
BatchSearchOutcomes ==
    {NetTimeout} \cup
    {net \in SearchOutcomes :
        /\ net.kind = "response"
        /\ net.total = 2
        /\ \E d \in {<<"A", "B">>, <<"B", "C">>} :
              net.data = [i \in 1 .. 2 |-> Topic(d[i])]}
BatchPdfOutcomes ==
    {net \in PdfOutcomes : net.kind \in {"TimeoutException", "response"} /\ net.status # 404}

\* SearchRequest(term=request.search_term, page=0, page_size=1000), topics.py:91
BatchQuery ==
    [valid |-> TRUE, term |-> Some("radar"), page |-> 0, page_size |-> LookupPageSize]

\* variant: the lookup table, the resolved list and the archive are kept in
\* one place for all calls (module-level names)
Frame_shared(r) == 1

\* all_found_topics, topic_map, topics_to_download, not_found_codes and zf
\* are local names of download_pdfs_endpoint (topics.py:90-139): each call
\* of the coroutine has its own
Frame(r) == r

NoFrame ==
    [topic_map |-> <<>>, topics_to_download |-> <<>>, not_found_codes |-> <<>>,
     idx |-> 0, zf |-> <<>>]

\* the calls at the await of topics.py:90
InitTwo ==
    /\ pc = "idle"
    /\ endpoint = "none"
    /\ request = NoRequest
    /\ search_request = NoSearchRequest
    /\ all_found_topics = <<>>
    /\ topic_map = <<>>
    /\ topics_to_download = <<>>
    /\ not_found_codes = <<>>
    /\ idx = 0
    /\ zf = <<>>
    /\ search_calls = <<>>
    /\ pdf_calls = <<>>
    /\ gateway_result = NoResult
    /\ response = NoResponse
    /\ in_flight = {}
    /\ lifespan = "running"
    /\ http_client_store = StoreWith(1)
    /\ clients_created = 1
    /\ gateways = [r \in Requests |-> [lifespan |-> "running", client |-> Some(1)]]
    /\ form = FormIdle
    /\ batch \in [Requests -> {[pc |-> "lookup", selected |-> l, search_net |-> None,
                                 pdf_nets |-> <<>>, response |-> NoResponse] :
                                   l \in BatchLists}]
    /\ frames = [f \in Requests |-> NoFrame]

\* what the concurrent requests leave alone
single == <<pc, endpoint, request, search_request, all_found_topics, topic_map,
            topics_to_download, not_found_codes, idx, zf, search_calls, pdf_calls,
            gateway_result, response, in_flight, form>>

\* the lookup search of one of the requests returns or raises
\* (topics.py:90-128)
batch_lookup_return ==
    /\ \E r \in Requests, net \in BatchSearchOutcomes :
          LET f == Frame(r)
              res == search_topics(BatchQuery, net)
              map == TopicMapOf(res.data)
              rl == ResolveLoop(batch[r].selected, map, <<>>, <<>>)
              err == ReRaise(ResolutionError(rl.topics_to_download, rl.not_found_codes))
          IN  /\ batch[r].pc = "lookup"
              /\ IF ~res.ok
                 THEN /\ batch' = [batch EXCEPT ![r].pc = "done",
                                       ![r].search_net = Some(net),
                                       ![r].response = DownloadFailure(res)]
                      /\ frames' = frames
                 ELSE /\ batch' = [batch EXCEPT
                                       ![r].pc = IF err.kind = "error" THEN "done"
                                                 ELSE PathFor(rl.topics_to_download),
                                       ![r].search_net = Some(net),
                                       ![r].response = err]
                      /\ frames' = [frames EXCEPT ![f] =
                                       [topic_map |-> map,
                                        topics_to_download |-> rl.topics_to_download,
                                        not_found_codes |-> rl.not_found_codes,
                                        idx |-> 1, zf |-> <<>>]]
    /\ UNCHANGED single
    /\ UNCHANGED lifecycle

\* the one document fetch of one of the requests returns or raises
\* (topics.py:128-135, 173-186)
batch_single_return ==
    /\ \E r \in Requests, net \in BatchPdfOutcomes :
          LET fr == frames[Frame(r)]
          IN  /\ batch[r].pc = "single"
              /\ fr.idx \in 1 .. Len(fr.topics_to_download)
              /\ LET code == fr.topics_to_download[1][1]
                     d == download_pdf_content(fr.topics_to_download[1][2], net)
                 IN  batch' = [batch EXCEPT ![r].pc = "done",
                                  ![r].pdf_nets = Append(@, net),
                                  ![r].response = IF d.ok THEN PdfResponse(code, d.content)
                                                          ELSE DownloadFailure(d)]
    /\ frames' = frames
    /\ UNCHANGED single
    /\ UNCHANGED lifecycle

\* a fetch of the loop of one of the requests returns or raises
\* (topics.py:138-171)
batch_zip_item_return ==
    /\ \E r \in Requests, net \in BatchPdfOutcomes :
          LET f == Frame(r)
              fr == frames[f]
          IN  /\ batch[r].pc = "zip"
              /\ fr.idx \in 1 .. Len(fr.topics_to_download)
              /\ LET code == fr.topics_to_download[fr.idx][1]
                     d == download_pdf_content(fr.topics_to_download[fr.idx][2], net)
                     archive == ZipItem(fr.zf, code, d)
                     exit == LoopExit(fr.idx, Len(fr.topics_to_download), d)
                 IN  /\ frames' = [frames EXCEPT ![f].zf = archive, ![f].idx = fr.idx + 1]
                     /\ batch' = [batch EXCEPT
                                     ![r].pdf_nets = Append(@, net),
                                     ![r].pc = IF exit THEN "done" ELSE "zip",
                                     ![r].response = IF exit THEN ReRaise(ZipResponse(archive))
                                                             ELSE @]
    /\ UNCHANGED single
    /\ UNCHANGED lifecycle

NextTwo ==
    \/ batch_lookup_return
    \/ batch_single_return
    \/ batch_zip_item_return

SpecTwo == InitTwo /\ [][NextTwo]_vars

----------------------------------------------------------------------------
(* Properties *)

Done == pc = "done"

\* the lookup search of the download request has returned a result
LookupReturned ==
    /\ endpoint = "download"
    /\ Len(search_calls) = 1
    /\ search_calls[1].net.kind = "response"
    /\ search_calls[1].net.status = 200

\* the upstream's outcome of the i-th document fetch
FetchOk(i) == pdf_calls[i].net.kind = "response" /\ pdf_calls[i].net.status = 200
Succeeded == {i \in 1 .. Len(pdf_calls) : FetchOk(i)}
Failed == {i \in 1 .. Len(pdf_calls) : ~FetchOk(i)}

MultiItem == LookupReturned /\ Len(topics_to_download) >= 2
SingleItem == LookupReturned /\ Len(topics_to_download) = 1

DocumentNames == {c \o ".pdf" : c \in Codes}
PlaceholderNames == {"ERROR_" \o c \o ".txt" : c \in Codes}
EntriesNamed(entries, names) == {i \in 1 .. Len(entries) : entries[i].name \in names}

FoundCodes == {all_found_topics[i].topicCode : i \in 1 .. Len(all_found_topics)}
IsFound(code) == code \in FoundCodes
IsNotFound(code) == code \notin FoundCodes
IdsOf(code) == {all_found_topics[i].topicId :
                   i \in {j \in 1 .. Len(all_found_topics) : all_found_topics[j].topicCode = code}}

IsGatewayFailure(net) ==
    \/ net.kind \in {"TimeoutException", "RequestError"}
    \/ net.kind = "response" /\ ~(net.status \in 200 .. 299)

LastNet ==
    IF pdf_calls # <<>> THEN pdf_calls[Len(pdf_calls)].net
    ELSE search_calls[Len(search_calls)].net

C9_FailureClassification ==
    (search_calls # <<>> \/ pdf_calls # <<>>) =>
        /\ LastNet.kind = "TimeoutException" =>
              /\ gateway_result.exc = "DoDSBIRAPIError"
              /\ gateway_result.status_code = None
              /\ gateway_result.message = "timed out"
        /\ LastNet.kind = "RequestError" =>
              /\ gateway_result.exc = "DoDSBIRAPIError"
              /\ gateway_result.status_code = None
              /\ gateway_result.message = "Network error"
        /\ (LastNet.kind = "response" /\ ~(LastNet.status \in 200 .. 299)) =>
              /\ gateway_result.exc = "DoDSBIRAPIError"
              /\ gateway_result.status_code = Some(LastNet.status)
        /\ gateway_result.status_code # None => LastNet.kind = "response"

C9_Witness ==
    /\ endpoint = "search"
    /\ search_calls # <<>>
    /\ LastNet = NetStatus(503)
    /\ gateway_result.status_code = Some(503)

\* C10: the has_more flag a search returns is true exactly when
\* (page + 1) * page_size < total, for the request's page and page_size and
\* the upstream's total.
C10_HasMore ==
    (endpoint = "search" /\ response.kind = "json") =>
        /\ search_request.page >= 0
        /\ search_request.page_size >= 1 /\ search_request.page_size <= 100
        /\ response.total = search_calls[1].net.total
        /\ response.has_more =
              ((search_request.page + 1) * search_request.page_size
                   < search_calls[1].net.total)

C10_Witness ==
    /\ endpoint = "search"
    /\ response.kind = "json"
    /\ search_request.page = 1
    /\ search_request.page_size = 2
    /\ response.total = 4
    /\ response.has_more = FALSE

\* C11: the total of a search result is at least the number of topics it
\* returns.
C11_TotalCoversTopics ==
    (endpoint = "search" /\ response.kind = "json") =>
        response.total >= Len(response.topics)

\* C12: a download request issues exactly one gateway search call, for the
\* request's search term with page 0 and page size 1000 whatever the
\* request's page and page_size, and builds its lookup table from the result.
C12_OneLookupSearch ==
    (endpoint = "download" /\ request.valid /\ Done) =>
        /\ Len(search_calls) = 1
        /\ search_calls[1].request.term = request.term
        /\ search_calls[1].request.page = 0
        /\ search_calls[1].request.page_size = LookupPageSize
        /\ search_calls[1].net.kind = "response" /\ search_calls[1].net.status = 200
              => topic_map = TopicMapOf(search_calls[1].net.data)

InBounds(sr) ==
    sr.page >= 0 /\ sr.page_size >= 1 /\ sr.page_size <= 100

\* C13: every SearchRequest that exists, those handed to the gateway
\* included, has page >= 0 and 1 <= page_size <= 100; the download handler's
\* attempt to build one with page size 1000 is rejected with an error and
\* yields no query.
C13_SearchRequestBounds ==
    /\ search_request.valid => InBounds(search_request)
    /\ \A i \in 1 .. Len(search_calls) : InBounds(search_calls[i].request)
    /\ (endpoint = "download" /\ request.valid) =>
          /\ search_request = NoSearchRequest
          /\ search_calls = <<>>
          /\ response.kind = "error"

C13_Witness ==
    /\ endpoint = "download"
    /\ request.valid
    /\ request.page = MaxPage
    /\ search_request = NoSearchRequest
    /\ response = HTTPException(500, "DOWNLOAD_ERROR")

TerminalOutcome ==
    \/ response.kind = "pdf" /\ response.status = 200
    \/ response.kind = "zip" /\ response.status = 200
    \/ /\ response.kind = "error"
       /\ \/ /\ response.status = 404
             /\ response.code \in {"TOPIC_NOT_FOUND", "NO_TOPICS_FOR_DOWNLOAD"}
          \/ /\ response.code = "DOD_API_DOWNLOAD_ERROR"
             /\ response.status \in ErrorStatuses \cup {BadGateway}
          \/ /\ response.status = 500
             /\ response.code = "DOWNLOAD_ERROR"

\* the handler raised not-found: the lookup returned and no code resolved
RaisedNotFound == LookupReturned /\ Done /\ topics_to_download = <<>>

ClientPresent == "client" \in DOMAIN http_client_store

\* C17: the store holds the shared client from startup until shutdown has
\* cleared it and holds nothing before startup and after shutdown; one
\* client is constructed in the life of the process; a gateway asked for
\* while the store is empty is refused, the request is answered with an
\* error and no client is constructed; every gateway handed out wraps the
\* one shared client.
C17_ClientLifecycle ==
    /\ ClientPresent <=> lifespan \in {"running", "closing"}
    /\ ClientPresent => http_client_store["client"] = 1
    /\ clients_created = IF lifespan = "created" THEN 0 ELSE 1
    /\ \A i \in 1 .. Len(gateways) :
          IF gateways[i].lifespan \in {"running", "closing"}
          THEN gateways[i].client = Some(1)
          ELSE gateways[i].client = None
    /\ (pc = "done" /\ gateways[Len(gateways)].client = None) =>
          /\ response = UnhandledError
          /\ search_calls = <<>>
          /\ pdf_calls = <<>>

\* a gateway was handed out while the application ran, and a request after
\* shutdown was refused one
C17_Witness ==
    /\ lifespan = "stopped"
    /\ ~ClientPresent
    /\ clients_created = 1
    /\ Len(gateways) = 2
    /\ gateways[1] = [lifespan |-> "running", client |-> Some(1)]
    /\ gateways[2] = [lifespan |-> "stopped", client |-> None]
    /\ response = UnhandledError

\* the kind of a handler's outcome: a single PDF, an archive, or a fatal
\* error (an error response or an error page)
OutcomeKind(resp) ==
    CASE resp.kind = "pdf" -> "pdf"
      [] resp.kind = "zip" -> "archive"
      [] resp.kind \in {"error", "html"} -> "fatal"
      [] OTHER -> "none"

RECURSIVE ArchiveAlone(_, _, _)
ArchiveAlone(topics, nets, archive) ==
    IF topics = <<>> \/ nets = <<>>
    THEN archive
    ELSE ArchiveAlone(Tail(topics), Tail(nets),
                      ZipItem(archive, Head(topics)[1],
                              download_pdf_content(Head(topics)[2], Head(nets))))

\* the resolution of a request that runs alone
ResolvedAlone(selected, search_net) ==
    ResolveLoop(selected, TopicMapOf(search_topics(BatchQuery, search_net).data),
                <<>>, <<>>)

\* the response of a request that runs alone on the given upstream outcomes
OutcomeAlone(selected, search_net, pdf_nets) ==
    LET res == search_topics(BatchQuery, search_net)
        rl == ResolvedAlone(selected, search_net)
        topics == rl.topics_to_download
        err == ReRaise(ResolutionError(topics, rl.not_found_codes))
    IN  IF ~res.ok THEN DownloadFailure(res)
        ELSE IF err.kind = "error" THEN err
        ELSE IF pdf_nets = <<>> THEN NoResponse
        ELSE IF PathFor(topics) = "single"
        THEN LET d == download_pdf_content(topics[1][2], pdf_nets[1])
             IN  IF d.ok THEN PdfResponse(topics[1][1], d.content)
                         ELSE DownloadFailure(d)
        ELSE ReRaise(ZipResponse(ArchiveAlone(topics, pdf_nets, <<>>)))

\* the lookup search of request r returned a result
BatchLookupOk(r) ==
    /\ batch[r].search_net # None
    /\ search_topics(BatchQuery, Value(batch[r].search_net)).ok

====
